---- MODULE Spec2Model ----
(***************************************************************************)
(* A model of the Yoga-Tracker Streamlit application (src/main.py).        *)
(*                                                                         *)
(* Spec      one browser session: every step is one run of the script     *)
(*           (get_groq_client, then main()), started by a page load, a     *)
(*           button click or a download click.                             *)
(* DietSpec  create_diet_pdf's line-parsing loop, run on bounded plans.    *)
(* PdfSpec   create_pdf applied to bounded assessments and analyses.       *)
(***************************************************************************)
EXTENDS Integers, Sequences, FiniteSets, Bags, TLC

VARIABLES
    env_key,        \* os.getenv('GROQ_API_KEY'): "unset" (None), "empty" ('') or "env-key"
    secrets,        \* st.secrets: "nofile", "nokey", "empty" (key with '') or "secrets-key"
    session_state,  \* st.session_state: a function from the keys present to values
    heap,           \* the dict objects session_state refers to: ref -> dict
    last_saved,     \* history: the form most recently saved by each Save button
    llm_log,        \* history: the bag of chat-completion requests issued so far
    gen_clicks,     \* history: the number of generate clicks so far
    run,            \* the last script run: button clicked, status, what was rendered
    dp,             \* create_diet_pdf: the locals of the line-parsing loop
    pdf_in,         \* create_pdf: the arguments of the call
    pdf_out         \* create_pdf: the result of the call

vars == <<env_key, secrets, session_state, heap, last_saved, llm_log, gen_clicks,
          run, dp, pdf_in, pdf_out>>

sessionVars == <<env_key, secrets, session_state, heap, last_saved, llm_log,
                 gen_clicks, run>>

(***************************************************************************)
(* Bounds of the model.                                                    *)
(***************************************************************************)
\* form fills the user chooses between: 0 (every widget at its default) .. MaxProfile
MaxProfile == 1
\* generate clicks per session
MaxClicks == 2
\* lines of a dietary plan
MaxLines == 4

(***************************************************************************)
(* Program constants.                                                      *)
(***************************************************************************)
SliderMin == 0
SliderMax == 10

\* default_data's keys, in the order of the dict literal
ScoreFieldSeq ==
    <<"flexibility", "strength", "balance", "pain", "posture", "breathing",
      "spine", "hips", "shoulders", "core",
      "stress", "energy", "focus", "sleep", "anxiety", "mood", "mindfulness">>

PhysicalFields ==
    {"flexibility", "strength", "balance", "pain", "posture", "breathing",
     "spine", "hips", "shoulders", "core"}

MentalFields ==
    {"stress", "energy", "focus", "sleep", "anxiety", "mood", "mindfulness"}

ScoreFields == PhysicalFields \cup MentalFields

TextFields == {"notes", "limitations", "symptoms"}

default_data ==
    [k \in ScoreFields \cup TextFields |-> IF k \in ScoreFields THEN 0 ELSE ""]

default_client_info ==
    [name |-> "", age |-> 0, medical_history |-> "", current_medications |-> "",
     previous_yoga_experience |-> "", primary_goals |-> <<>>,
     specific_concerns |-> "", occupation |-> "", work_activity_level |-> "",
     stress_sources |-> <<>>, exercise_routine |-> "", sleep_hours |-> 7,
     diet_type |-> ""]

(***************************************************************************)
(* Python helpers.                                                         *)
(***************************************************************************)
\* d.update(u)
DictUpdate(d, u) ==
    [k \in (DOMAIN d) \cup (DOMAIN u) |-> IF k \in DOMAIN u THEN u[k] ELSE d[k]]

\* (mutant) only a missing key counts, a stored 0 does not
NotGetMissingOnly(d, k) == k \notin DOMAIN d

\* not d.get(k): the key is missing (None) or its value is 0
NotGet(d, k) == k \notin DOMAIN d \/ d[k] = 0

\* F at the value of x: x is evaluated once, then bound
Apply(F(_), x) == CHOOSE r \in {F(v) : v \in {x}} : TRUE

\* a mapping extended or overwritten at one key
Put(f, k, v) == [x \in (DOMAIN f) \cup {k} |-> IF x = k THEN v ELSE f[x]]

\* ', '.join(xs)
RECURSIVE JoinComma(_)
JoinComma(xs) ==
    IF Len(xs) = 0 THEN <<>>
    ELSE IF Len(xs) = 1 THEN <<xs[1]>>
    ELSE <<xs[1], ", ">> \o JoinComma(Tail(xs))

\* the object a fresh dict is allocated at
NewRef(h) == CHOOSE r \in 0..Cardinality(DOMAIN h) : r \notin DOMAIN h

\* (mutant) the dict itself instead of a copy of it
DictAlias(h, r) == [heap |-> h, ref |-> r]

\* d.copy(): a new object with the same items; the result is [heap, ref]
DictCopy(h, r) ==
    LET n == NewRef(h) IN [heap |-> Put(h, n, h[r]), ref |-> n]

\* the objects still referred to when a call returns
Reachable(ss) ==
    {ss[k] : k \in (DOMAIN ss) \cap {"before_data", "after_data"}}

Collect(ss, h) == [r \in (DOMAIN h) \cap Reachable(ss) |-> h[r]]

(***************************************************************************)
(* get_groq_client and the module-level try/except around it.              *)
(***************************************************************************)
\* not api_key, for the value os.getenv or st.secrets[...] gave
NoKey(v) == v \in {"unset", "empty"}

\* "'GROQ_API_KEY' in st.secrets" is evaluated only when the environment gave no
\* key; st.secrets raises when the application has no secrets file
get_groq_client(env, sec) ==
    IF NoKey(env) /\ sec = "nofile"
    THEN [result |-> "raise", api_key |-> env, shown |-> <<>>]
    ELSE LET api_key == IF NoKey(env) /\ sec \in {"empty", "secrets-key"} THEN sec ELSE env
         IN IF NoKey(api_key)
            THEN [result |-> "stop", api_key |-> api_key,
                  shown |-> <<"st.error: Groq API key not found">>]
            ELSE [result |-> "client", api_key |-> api_key, shown |-> <<>>]

groq_client(env, sec) ==
    LET g == get_groq_client(env, sec) IN
    IF g.result = "raise"
    THEN [result |-> "stop", api_key |-> g.api_key,
          shown |-> <<"st.error: Failed to initialize Groq client">>]
    ELSE g

(***************************************************************************)
(* initialize_session_state: the result is [ss, heap].                     *)
(***************************************************************************)
\* (mutant) the three records are assigned without the "not in" tests
initialize_session_state_always(ss, h) ==
    LET d  == NewRef(h)
        h0 == Put(h, d, default_data)
        c1 == DictCopy(h0, d)
        s1 == Put(ss, "before_data", c1.ref)
        c2 == DictCopy(c1.heap, d)
        s2 == Put(s1, "after_data", c2.ref)
        s3 == Put(s2, "client_info", default_client_info)
    IN [ss |-> s3, heap |-> Collect(s3, c2.heap)]

initialize_session_state(ss, h) ==
    LET d  == NewRef(h)
        h0 == Put(h, d, default_data)
        c1 == IF "before_data" \notin DOMAIN ss THEN DictCopy(h0, d)
              ELSE [heap |-> h0, ref |-> ss["before_data"]]
        s1 == Put(ss, "before_data", c1.ref)
        c2 == IF "after_data" \notin DOMAIN s1 THEN DictCopy(c1.heap, d)
              ELSE [heap |-> c1.heap, ref |-> s1["after_data"]]
        s2 == Put(s1, "after_data", c2.ref)
        s3 == IF "client_info" \notin DOMAIN s2
              THEN Put(s2, "client_info", default_client_info)
              ELSE s2
    IN [ss |-> s3, heap |-> Collect(s3, c2.heap)]

(***************************************************************************)
(* Text: a string the code inspects is a sequence of characters.           *)
(***************************************************************************)
NL == "\n"

IsSpace(c) == c \in {" ", NL}

IsDigit(c) == c \in {"0", "1", "2", "3", "4", "5", "6", "7", "8", "9"}

\* s.lstrip(), s.rstrip(), s.strip()
RECURSIVE LStrip(_)
LStrip(s) == IF Len(s) > 0 /\ IsSpace(s[1]) THEN LStrip(Tail(s)) ELSE s

RECURSIVE RStrip(_)
RStrip(s) ==
    IF Len(s) > 0 /\ IsSpace(s[Len(s)]) THEN RStrip(SubSeq(s, 1, Len(s) - 1)) ELSE s

Strip(s) == RStrip(LStrip(s))

\* whether s starts with the characters of p
StartsWith(s, p) == Len(s) >= Len(p) /\ SubSeq(s, 1, Len(p)) = p

\* p in s
RECURSIVE Contains(_, _)
Contains(s, p) ==
    IF Len(s) < Len(p) THEN FALSE
    ELSE StartsWith(s, p) \/ Contains(Tail(s), p)

\* s.split(sep): the pieces between the occurrences of sep, found left to right
RECURSIVE SplitAcc(_, _, _)
SplitAcc(s, sep, cur) ==
    IF Len(s) = 0 THEN <<cur>>
    ELSE IF StartsWith(s, sep)
         THEN <<cur>> \o SplitAcc(SubSeq(s, Len(sep) + 1, Len(s)), sep, <<>>)
         ELSE SplitAcc(Tail(s), sep, Append(cur, s[1]))

Split(s, sep) == SplitAcc(s, sep, <<>>)

\* s.split(sep, 1): at most one cut
RECURSIVE SplitOnceAcc(_, _, _)
SplitOnceAcc(s, sep, cur) ==
    IF Len(s) = 0 THEN <<cur>>
    ELSE IF StartsWith(s, sep)
         THEN <<cur, SubSeq(s, Len(sep) + 1, Len(s))>>
         ELSE SplitOnceAcc(Tail(s), sep, Append(cur, s[1]))

SplitOnce(s, sep) == SplitOnceAcc(s, sep, <<>>)

\* sep.join(parts)
RECURSIVE Join(_, _)
Join(parts, sep) ==
    IF Len(parts) = 0 THEN <<>>
    ELSE IF Len(parts) = 1 THEN parts[1]
    ELSE parts[1] \o sep \o Join(Tail(parts), sep)

\* (mutant) f"{n:d}": no sign for a value of 0 or more
FormatUnsigned(n) == IF n < 0 THEN <<"-", 0 - n>> ELSE <<"", n>>

\* f"{n:+d}": the sign, then the magnitude
FormatSigned(n) == IF n < 0 THEN <<"-", 0 - n>> ELSE <<"+", n>>

(***************************************************************************)
(* create_comparison_charts: each figure is the data frame it plots,       *)
(* label -> <<Before, After>>.                                             *)
(***************************************************************************)
PhysicalChartRows ==
    <<<<"Flexibility", "flexibility">>, <<"Strength", "strength">>,
      <<"Balance", "balance">>, <<"Pain Level", "pain">>,
      <<"Posture", "posture">>, <<"Breathing", "breathing">>,
      <<"Spine", "spine">>, <<"Hips", "hips">>,
      <<"Shoulders", "shoulders">>, <<"Core", "core">>>>

MentalChartRows ==
    <<<<"Stress", "stress">>, <<"Energy", "energy">>, <<"Focus", "focus">>,
      <<"Sleep", "sleep">>, <<"Anxiety", "anxiety">>, <<"Mood", "mood">>,
      <<"Mindfulness", "mindfulness">>>>

ChartFrame(rows, before_data, after_data) ==
    [i \in 1..Len(rows) |->
        <<rows[i][1], before_data[rows[i][2]], after_data[rows[i][2]]>>]

create_comparison_charts(before_data, after_data) ==
    [fig1 |-> [title |-> "Physical Metrics Comparison",
               data |-> ChartFrame(PhysicalChartRows, before_data, after_data)],
     fig2 |-> [title |-> "Mental & Emotional Metrics Comparison",
               data |-> ChartFrame(MentalChartRows, before_data, after_data)]]

(***************************************************************************)
(* The prompts: the values interpolated into the f-string, in the order of *)
(* the template (the fixed text between them never varies).                *)
(***************************************************************************)
\* the "X: Before {b}/10 -> After {a}/10" lines of generate_analysis, in order
AnalysisPromptFields ==
    <<"flexibility", "strength", "balance", "pain", "posture", "breathing",
      "spine", "hips", "shoulders", "core",
      "stress", "energy", "focus", "sleep", "anxiety", "mood", "mindfulness">>

RECURSIVE ScoreSlots(_, _, _)
ScoreSlots(fields, before_data, after_data) ==
    IF Len(fields) = 0 THEN <<>>
    ELSE <<before_data[fields[1]], after_data[fields[1]]>>
         \o ScoreSlots(Tail(fields), before_data, after_data)

\* (mutant) the prompt also carries how many requests the session has made
FStringWithHistory(template, values) ==
    [template |-> template, values |-> Append(values, BagCardinality(llm_log))]

\* f"""...""": the template filled with the values
FString(template, values) == [template |-> template, values |-> values]

AnalysisPrompt(before_data, after_data, client_info) ==
  FString("generate_analysis",
    <<client_info.name, client_info.age, client_info.occupation,
      client_info.previous_yoga_experience, JoinComma(client_info.primary_goals)>>
    \o ScoreSlots(AnalysisPromptFields, before_data, after_data)
    \o <<client_info.work_activity_level, client_info.exercise_routine,
         client_info.sleep_hours, client_info.diet_type,
         JoinComma(client_info.stress_sources),
         before_data["limitations"], before_data["symptoms"],
         before_data["notes"], after_data["notes"]>>)

DietPrompt(client_info) ==
  FString("generate_dietary_plan",
    <<client_info.name, client_info.height, client_info.weight,
      client_info.dietary_restrictions, JoinComma(client_info.health_goals),
      client_info.food_allergies, client_info.exercise_routine>>)

\* the arguments of groq_client.chat.completions.create
ChatRequest(prompt) ==
    [messages |-> <<[role |-> "user", content |-> prompt]>>,
     model |-> "meta-llama/llama-4-maverick-17b-128e-instruct",
     max_tokens |-> 3000, stream |-> FALSE]


(***************************************************************************)
(* create_pdf.  The story is the sequence of flowables handed to           *)
(* doc.build; the result is [ok, story], ok = FALSE when the call raises.  *)
(***************************************************************************)
Paragraph(text, style) == [kind |-> "Paragraph", body |-> text, style |-> style]

Spacer(h) == [kind |-> "Spacer", body |-> h, style |-> ""]

Image(fig) == [kind |-> "Image", body |-> fig, style |-> ""]

Table(rows) == [kind |-> "Table", body |-> rows, style |-> ""]

\* one row of a summary table: [label, f"{b}/10", f"{a}/10", f"{a - b:+d}"]
SummaryRow(label, field, before_data, after_data) ==
    <<label, <<before_data[field], "/10">>, <<after_data[field], "/10">>,
      FormatSigned(after_data[field] - before_data[field])>>

SummaryHeader == <<"Metric", "Before", "After", "Change">>

physical_data(before_data, after_data) ==
    <<SummaryHeader,
      SummaryRow("Flexibility", "flexibility", before_data, after_data),
      SummaryRow("Strength", "strength", before_data, after_data),
      SummaryRow("Balance", "balance", before_data, after_data),
      SummaryRow("Posture", "posture", before_data, after_data),
      SummaryRow("Core Strength", "core", before_data, after_data)>>

mental_data(before_data, after_data) ==
    <<SummaryHeader,
      SummaryRow("Stress", "stress", before_data, after_data),
      SummaryRow("Energy", "energy", before_data, after_data),
      SummaryRow("Focus", "focus", before_data, after_data),
      SummaryRow("Sleep", "sleep", before_data, after_data),
      SummaryRow("Mindfulness", "mindfulness", before_data, after_data)>>

\* the body of "for section in sections": [ok, story] for one section
SectionFlowables(section) ==
    IF Len(Strip(section)) = 0 THEN [ok |-> TRUE, story |-> <<>>]
    ELSE IF IsDigit(Strip(section)[1]) /\ Contains(section, <<".", " ">>)
         THEN LET parts == SplitOnce(section, <<NL>>) IN
              IF Len(parts) # 2
              THEN [ok |-> FALSE, story |-> <<>>]   \* header, content = [one item]
              ELSE [ok |-> TRUE,
                    story |-> <<Paragraph(Strip(parts[1]), "CustomHeading2"),
                                Paragraph(Strip(parts[2]), "CustomBody"),
                                Spacer(10)>>]
         ELSE [ok |-> TRUE,
               story |-> <<Paragraph(Strip(section), "CustomBody"), Spacer(10)>>]

\* the loop over the sections: it stops at the first section that raises
RECURSIVE SectionsLoop(_)
SectionsLoop(sections) ==
    IF Len(sections) = 0 THEN [ok |-> TRUE, story |-> <<>>]
    ELSE LET first == SectionFlowables(sections[1]) IN
         IF ~first.ok THEN first
         ELSE LET rest == SectionsLoop(Tail(sections)) IN
              [ok |-> rest.ok, story |-> first.story \o rest.story]

\* image_ok: whether pio.to_image renders the figures (it raises when it cannot)
create_pdf(client_info, analysis, before_data, after_data, fig1, fig2, image_ok) ==
    LET head == <<Paragraph(<<"Yoga Progress Report">>, "CustomTitle"),
                  Paragraph(<<"for ", client_info.name>>, "CustomTitle"),
                  Spacer(30),
                  Paragraph(<<"Assessment Date: ", "now">>, "CustomBody"),
                  Paragraph(<<"Experience Level: ",
                              client_info.previous_yoga_experience>>, "CustomBody"),
                  Spacer(30),
                  Paragraph(<<"Progress Visualization">>, "CustomHeading2"),
                  Spacer(10)>>
        charts == <<Paragraph(<<"Physical Metrics Comparison">>, "CustomBody"),
                    Image(fig1), Spacer(20),
                    Paragraph(<<"Mental & Emotional Metrics Comparison">>, "CustomBody"),
                    Image(fig2), Spacer(20)>>
        tables == <<Paragraph(<<"Progress Summary">>, "CustomHeading2"),
                    Table(physical_data(before_data, after_data)), Spacer(20),
                    Table(mental_data(before_data, after_data)), Spacer(30),
                    Paragraph(<<"Detailed Progress Analysis">>, "CustomHeading2"),
                    Spacer(10)>>
        body == SectionsLoop(Split(analysis, <<NL, NL>>))
    IN  IF ~image_ok THEN [ok |-> FALSE, story |-> <<>>]
        ELSE IF ~body.ok THEN [ok |-> FALSE, story |-> <<>>]
        ELSE [ok |-> TRUE, story |-> head \o charts \o tables \o body.story]


(***************************************************************************)
(* create_diet_pdf.  A plan is a sequence of words; NL ends a line and ":" *)
(* is a word of its own.  The loop's locals are the record                 *)
(* [lines, i, pc, current_day, meal_data, story]; meal_data = <<>> is None.*)
(* pc: "while" (line 622), "meal" (line 655 taken), "done" (returned),     *)
(* "raised".                                                               *)
(***************************************************************************)
DayNames ==
    <<"Monday", "Tuesday", "Wednesday", "Thursday", "Friday", "Saturday", "Sunday">>

MealNames == <<"Breakfast", "Morning Snack", "Lunch", "Afternoon Snack", "Dinner">>

\* any(name in line for name in names)
AnyIn(names, line) == \E k \in 1..Len(names) : Contains(line, <<names[k]>>)

\* line.startswith(('Calories:', 'Protein:', 'Carbs:', 'Fat:')), and the like
StartsWithAny(line, heads) == \E h \in heads : StartsWith(line, <<h, ":">>)

MealTableHeader == <<"Meal Time", "Details", "Nutrients", "Prep Time">>

\* the title and the client profile table
DietHead(client_info) ==
    <<Paragraph(<<"7-Day Meal Plan">>, "CustomTitle"),
      Paragraph(<<"for ", client_info.name>>, "CustomTitle"),
      Spacer(20),
      Table(<<<<"Client Profile", "">>,
              <<"Height", <<client_info.height, " cm">>>>,
              <<"Weight", <<client_info.weight, " kg">>>>,
              <<"Dietary Restrictions", JoinComma(client_info.dietary_restrictions)>>,
              <<"Health Goals", JoinComma(client_info.health_goals)>>,
              <<"Food Allergies", client_info.food_allergies>>>>),
      Spacer(30)>>

DietStart(client_info, dietary_plan) ==
    [lines |-> Split(dietary_plan, <<NL>>), i |-> 0, pc |-> "while",
     current_day |-> <<>>, meal_data |-> <<>>, story |-> DietHead(client_info)]

\* (mutant) the table is added whether or not it holds a meal row
FlushTableAlways(st, after) == st.story \o <<Table(st.meal_data)>> \o after

\* "if meal_data and len(meal_data) > 1": the table, then what follows it
FlushTable(st, after) ==
    IF Len(st.meal_data) > 1 THEN st.story \o <<Table(st.meal_data)>> \o after
    ELSE st.story

\* lines 622-652 and 685-707: one test of the outer loop and what it leads to
WhileStep(st) ==
    IF ~(st.i < Len(st.lines))
    THEN [st EXCEPT !.story = FlushTable(st, <<>>), !.pc = "done"]
    ELSE LET line == Strip(st.lines[st.i + 1]) IN
         IF Len(line) = 0 THEN [st EXCEPT !.i = st.i + 1]
         ELSE IF AnyIn(DayNames, line)
              THEN [st EXCEPT !.story = FlushTable(st, <<Spacer(15)>>)
                                        \o <<Paragraph(line, "CustomDayHeader")>>,
                              !.current_day = line,
                              !.meal_data = <<MealTableHeader>>,
                              !.i = st.i + 1]
              ELSE IF AnyIn(MealNames, line) THEN [st EXCEPT !.pc = "meal"]
                   ELSE [st EXCEPT !.i = st.i + 1]

\* lines 662-673, from the loop's test on: acc is [i, details, nutrients, prep_time]
RECURSIVE InnerLoop(_, _)
InnerLoop(lines, acc) ==
    IF ~(acc.i < Len(lines) /\ ~AnyIn(MealNames, lines[acc.i + 1])) THEN acc
    ELSE LET line == Strip(lines[acc.i + 1])
             a1 == IF StartsWithAny(line, {"Main", "Alternative"})
                   THEN [acc EXCEPT !.details = Append(acc.details, line)]
                   ELSE IF StartsWithAny(line, {"Calories", "Protein", "Carbs", "Fat"})
                        THEN [acc EXCEPT !.nutrients = Append(acc.nutrients, line)]
                        ELSE IF StartsWithAny(line, {"Prep Time"})
                             THEN [acc EXCEPT
                                     !.prep_time = Strip(Split(line, <<":">>)[2])]
                             ELSE acc
             a2 == [a1 EXCEPT !.i = acc.i + 1]
         IN IF a2.i >= Len(lines) \/ Len(line) = 0 THEN a2
            ELSE Apply(LAMBDA a : InnerLoop(lines, a), a2)

\* lines 656-683: the meal entry at lines[i]
MealStep(st) ==
    LET meal_time == Strip(st.lines[st.i + 1])
        acc == InnerLoop(st.lines,
                         [i |-> st.i, details |-> <<>>, nutrients |-> <<>>,
                          prep_time |-> <<>>])
    IN IF Len(acc.details) > 0 /\ Len(acc.nutrients) > 0
       THEN IF Len(st.meal_data) = 0
            THEN [st EXCEPT !.i = acc.i, !.pc = "raised"]    \* None.append
            ELSE [st EXCEPT !.i = acc.i, !.pc = "while",
                            !.meal_data = Append(st.meal_data,
                                <<meal_time, Join(acc.details, <<NL>>),
                                  Join(acc.nutrients, <<NL>>), acc.prep_time>>)]
       ELSE [st EXCEPT !.i = acc.i, !.pc = "while"]

DietStep(st) ==
    IF st.pc = "while" THEN WhileStep(st)
    ELSE IF st.pc = "meal" THEN MealStep(st)
    ELSE st

\* the whole call: the loop run until it returns, raises, or comes back to a
\* state it was in before (and so runs forever)
RECURSIVE DietRun(_, _)
DietRun(st, seen) ==
    IF st.pc \in {"done", "raised"} THEN [status |-> st.pc, story |-> st.story]
    ELSE IF st \in seen THEN [status |-> "hang", story |-> <<>>]
    ELSE Apply(LAMBDA next : DietRun(next, seen \cup {st}), DietStep(st))

\* build_ok: whether doc.build lays the story out (it raises when it cannot)
create_diet_pdf(client_info, dietary_plan, build_ok) ==
    LET r == DietRun(DietStart(client_info, dietary_plan), {}) IN
    IF r.status = "done" /\ ~build_ok THEN [status |-> "raised", story |-> <<>>]
    ELSE r


(***************************************************************************)
(* What the user and the LLM provider can submit.                          *)
(***************************************************************************)
Profiles == 0..MaxProfile

FieldPos(f) == CHOOSE i \in 1..Len(ScoreFieldSeq) : ScoreFieldSeq[i] = f

\* (mutant) a slider with no upper end
slider_unbounded(p, f) == SliderMin + (p * FieldPos(f))

\* st.slider(label, 0, 10): an integer of the range; fill 0 leaves it at the minimum
slider(p, f) == SliderMin + ((p * FieldPos(f)) % (SliderMax - SliderMin + 1))

\* st.text_area(label): '' until the user types
text_area(p, label) == IF p = 0 THEN "" ELSE label

\* the dict literal Save Before Assessment passes to update()
BeforeForm(p) ==
    [k \in ScoreFields \cup {"notes", "limitations", "symptoms"} |->
        IF k \in ScoreFields THEN slider(p, k) ELSE text_area(p, k)]

\* the dict literal Save After Assessment passes to update()
AfterForm(p) ==
    [k \in ScoreFields \cup {"notes"} |->
        IF k \in ScoreFields THEN slider(p, k) ELSE text_area(p, "after notes")]

\* lines 741-766: the Client Information widgets, as the user has set them
SidebarInput(p) ==
    [client_name |-> text_area(p, "Asha"), client_age |-> 25 + p,
     previous_yoga_experience |-> IF p = 0 THEN "None" ELSE "Beginner"]

\* the client_info dict main() builds at its start
main_client_info ==
    [name |-> "", age |-> 0, occupation |-> "", previous_yoga_experience |-> "",
     primary_goals |-> <<>>, specific_concerns |-> "", work_activity_level |-> "",
     stress_sources |-> <<>>, exercise_routine |-> "", sleep_hours |-> 7,
     diet_type |-> "", current_medications |-> "", height |-> 170, weight |-> 70,
     target_weight |-> 70, dietary_restrictions |-> <<>>, food_allergies |-> "",
     preferred_cuisine |-> <<>>, meal_prep_time |-> 30, medical_conditions |-> "",
     digestive_issues |-> "", health_goals |-> <<>>, nutritional_needs |-> ""]

\* (mutant) the Client Information widgets are copied into client_info
SidebarCopied(client_info, widgets) ==
    [client_info EXCEPT !.name = widgets.client_name, !.age = widgets.client_age,
                        !.previous_yoga_experience = widgets.previous_yoga_experience]

\* lines 741-766: the widgets' values are bound to local names of their own;
\* client_info is what it was built as
Sidebar(client_info, widgets) == client_info

\* the Diet Plan tab's widgets written into client_info
DietForm(client_info, p) ==
    [client_info EXCEPT
        !.height = 170 + p,
        !.weight = 70 + p,
        !.target_weight = 70 + p,
        !.meal_prep_time = 30,
        !.dietary_restrictions = IF p = 0 THEN <<"None">> ELSE <<"Vegan", "Keto">>,
        !.food_allergies = text_area(p, "nuts"),
        !.preferred_cuisine = <<"Mediterranean">>,
        !.medical_conditions = text_area(p, "asthma"),
        !.digestive_issues = text_area(p, "reflux"),
        !.health_goals = IF p = 0 THEN <<"Maintenance">>
                         ELSE <<"Weight Loss", "Better Sleep">>,
        !.nutritional_needs = text_area(p, "iron")]

\* the Diet Plan tab's widgets left as rendered (0) or filled in (1)
DietFills == {0, 1}

\* analyses the provider may return: two sections, the second a numbered
\* heading with its body; and a numbered heading alone
AnalysisReplies ==
    {<<"h", "i", NL, NL, "1", ".", " ", "a", NL, "b">>,
     <<"1", ".", " ", "a">>}

\* plans the provider may return: a day with a note, and a day in the format
\* the prompt asks for
PlanReplies ==
    {<<"Monday", NL, NL, "Enjoy">>,
     <<"Monday", NL, "Breakfast", " ", "(7", ":", "00 AM)", NL,
       "Main", ":", " ", "oats", NL, "Calories", ":", " ", "300">>}

(***************************************************************************)
(* main().  A run threads the context                                      *)
(*   [ss, heap, log, saved, events, files, status, api_key]                *)
(* through the four tabs; status is "running", "raised" (an exception is   *)
(* propagating) or "hung" (a call never returns).                          *)
(***************************************************************************)
Emit(c, e) == [c EXCEPT !.events = Append(@, e)]

\* an exception is raised at this point of the run
Raise(c) == Emit([c EXCEPT !.status = "raised"], "exception")

\* (mutant) a handler with no try/except
except_Nothing(c, message) == c

\* "except Exception as e: st.error(...)"
except_Exception(c, message) ==
    IF c.status = "raised" THEN Emit([c EXCEPT !.status = "running"], message) ELSE c

\* (mutant) a failed call is made a second time
chat_completions_create_retry(c, fn, args, prompt, llm_ok) ==
    LET entry == [fn |-> fn, args |-> args, request |-> ChatRequest(prompt),
                  api_key |-> c.api_key]
        c1 == Emit([c EXCEPT !.log = @ (+) SetToBag({entry})], "chat.completions.create")
        c2 == Emit([c1 EXCEPT !.log = @ (+) SetToBag({entry})], "chat.completions.create")
    IN IF llm_ok THEN c1 ELSE Raise(c2)

\* groq_client.chat.completions.create(...): the request is logged, then the
\* call returns or raises
chat_completions_create(c, fn, args, prompt, llm_ok) ==
    LET entry == [fn |-> fn, args |-> args, request |-> ChatRequest(prompt),
                  api_key |-> c.api_key]
        c1 == Emit([c EXCEPT !.log = @ (+) SetToBag({entry})], "chat.completions.create")
    IN IF llm_ok THEN c1 ELSE Raise(c1)

before_data_of(c) == c.heap[c.ss["before_data"]]

after_data_of(c) == c.heap[c.ss["after_data"]]

\* lines 803-826
SaveBeforeHandler(c, form) ==
    Emit([c EXCEPT !.heap = [@ EXCEPT ![c.ss["before_data"]] = DictUpdate(@, form)],
                   !.saved = Put(@, "before", form)],
         "st.success: Before assessment saved!")

\* lines 858-879
SaveAfterHandler(c, form) ==
    Emit([c EXCEPT !.heap = [@ EXCEPT ![c.ss["after_data"]] = DictUpdate(@, form)],
                   !.saved = Put(@, "after", form)],
         "st.success: After assessment saved!")

\* lines 885-886
AnalysisGuardRejects(before_data, after_data) ==
    NotGet(before_data, "flexibility") /\ NotGet(after_data, "flexibility")

\* st.download_button(label, data, file_name, ...): the button rendered, with
\* the file it offers
download_button(c, label, data, file_name) ==
    Emit([c EXCEPT !.files = Append(@, [file_name |-> file_name, data |-> data])],
         label)

\* f"yoga_progress_report_{client_info['name']}_{date}.pdf" and the diet plan's
FileName(stem, client_info) == <<stem, client_info.name, "_", "today", ".pdf">>

\* (mutant) the report is stored before the build is known to have succeeded
AnalysisPdfStoredFirst(c, client_info, reply, figs, image_ok) ==
    Apply(LAMBDA pdf :
              IF ~pdf.ok
              THEN Raise(Emit([c EXCEPT !.ss = Put(@, "progress_pdf", pdf.story)],
                              "session_state.progress_pdf"))
              ELSE Apply(LAMBDA c1 :
                             download_button(c1, "st.download_button: progress report",
                                             c1.ss["progress_pdf"],
                                             FileName("yoga_progress_report_", client_info)),
                         Emit([c EXCEPT !.ss = Put(@, "progress_pdf", pdf.story)],
                              "session_state.progress_pdf")),
          create_pdf(client_info, reply, before_data_of(c), after_data_of(c),
                     figs.fig1, figs.fig2, image_ok))

\* lines 911-932, once the analysis is displayed
AnalysisPdf(c, client_info, reply, figs, image_ok) ==
    Apply(LAMBDA pdf :
              IF ~pdf.ok THEN Raise(c)
              ELSE Apply(LAMBDA c1 :
                             download_button(c1, "st.download_button: progress report",
                                             c1.ss["progress_pdf"],
                                             FileName("yoga_progress_report_", client_info)),
                         Emit([c EXCEPT !.ss = Put(@, "progress_pdf", pdf.story)],
                              "session_state.progress_pdf")),
          create_pdf(client_info, reply, before_data_of(c), after_data_of(c),
                     figs.fig1, figs.fig2, image_ok))

\* (mutant) the LLM is asked before the charts are displayed
AnalysisTryLlmFirst(c, client_info, reply, llm_ok, image_ok) ==
    LET figs == create_comparison_charts(before_data_of(c), after_data_of(c))
    IN Apply(LAMBDA c2 :
                 IF c2.status = "raised" THEN c2
                 ELSE Apply(LAMBDA c3 :
                                AnalysisPdf(c3, client_info, reply, figs, image_ok),
                            Emit(Emit(Emit(Emit(c2, "st.plotly_chart: fig1"),
                                           "st.plotly_chart: fig2"),
                                      "st.write: analysis"), "create_pdf")),
             chat_completions_create(
                 c, "generate_analysis",
                 <<before_data_of(c), after_data_of(c), client_info>>,
                 AnalysisPrompt(before_data_of(c), after_data_of(c), client_info),
                 llm_ok))

\* lines 890-932: the body of the try
AnalysisTry(c, client_info, reply, llm_ok, image_ok) ==
    LET figs == create_comparison_charts(before_data_of(c), after_data_of(c))
        c1 == Emit(Emit(c, "st.plotly_chart: fig1"), "st.plotly_chart: fig2")
    IN Apply(LAMBDA c2 :
                 IF c2.status = "raised" THEN c2
                 ELSE Apply(LAMBDA c3 :
                                AnalysisPdf(c3, client_info, reply, figs, image_ok),
                            Emit(Emit(c2, "st.write: analysis"), "create_pdf")),
             chat_completions_create(
                 c1, "generate_analysis",
                 <<before_data_of(c), after_data_of(c), client_info>>,
                 AnalysisPrompt(before_data_of(c), after_data_of(c), client_info),
                 llm_ok))

\* lines 884-935
AnalysisHandler(c, client_info, reply, llm_ok, image_ok) ==
    IF AnalysisGuardRejects(before_data_of(c), after_data_of(c))
    THEN Emit(c, "st.error: Please complete and save both before and after assessments first!")
    ELSE except_Exception(AnalysisTry(c, client_info, reply, llm_ok, image_ok),
                          "st.error: An error occurred")

\* lines 986-999, once the plan is displayed
DietPdf(c, client_info, reply, build_ok) ==
    Apply(LAMBDA pdf :
              IF pdf.status = "hang" THEN [c EXCEPT !.status = "hung"]
              ELSE IF pdf.status = "raised" THEN Raise(c)
              ELSE Apply(LAMBDA c1 :
                             download_button(c1, "st.download_button: diet plan",
                                             c1.ss["diet_pdf"],
                                             FileName("diet_plan_", client_info)),
                         Emit([c EXCEPT !.ss = Put(@, "diet_pdf", pdf.story)],
                              "session_state.diet_pdf")),
          create_diet_pdf(client_info, reply, build_ok))

\* lines 979-999: the body of the try
DietTry(c, client_info, reply, llm_ok, build_ok) ==
    Apply(LAMBDA c1 :
              IF c1.status = "raised" THEN c1
              ELSE Apply(LAMBDA c2 : DietPdf(c2, client_info, reply, build_ok),
                         Emit(Emit(c1, "st.write: dietary_plan"), "create_diet_pdf")),
          chat_completions_create(c, "generate_dietary_plan", <<client_info>>,
                                  DietPrompt(client_info), llm_ok))

\* lines 978-1002
DietHandler(c, client_info, reply, llm_ok, build_ok) ==
    except_Exception(DietTry(c, client_info, reply, llm_ok, build_ok),
                     "st.error: An error occurred while generating the diet plan")

\* lines 709-711: the context once initialize_session_state has run
Initialised(c) ==
    Apply(LAMBDA i0 : [c EXCEPT !.ss = i0.ss, !.heap = i0.heap],
          initialize_session_state(c.ss, c.heap))

\* lines 771-826: tabs[0].  in is [p, reply, llm_ok, lib_ok, sidebar], what the
\* user and the services give this run
TabBefore(c, button, in) ==
    Apply(LAMBDA t : IF button = "Save Before Assessment"
                     THEN SaveBeforeHandler(t, BeforeForm(in.p)) ELSE t,
          Emit(c, "tab: Before Assessment"))

\* lines 828-879: tabs[1]
TabAfter(c, button, in) ==
    Apply(LAMBDA t : IF button = "Save After Assessment"
                     THEN SaveAfterHandler(t, AfterForm(in.p)) ELSE t,
          Emit(c, "tab: After Assessment"))

\* (mutant) the download button is rendered whenever a report is stored
TabAnalysisPersistent(c, button, in) ==
    Apply(LAMBDA t : IF button = "Generate Analysis"
                     THEN AnalysisHandler(t, Sidebar(main_client_info, in.sidebar),
                                          in.reply, in.llm_ok, in.lib_ok)
                     ELSE IF "progress_pdf" \in DOMAIN t.ss
                          THEN download_button(
                                   t, "st.download_button: progress report",
                                   t.ss["progress_pdf"],
                                   FileName("yoga_progress_report_", main_client_info))
                          ELSE t,
          Emit(c, "tab: Analysis"))

\* lines 881-935: tabs[2]
TabAnalysis(c, button, in) ==
    Apply(LAMBDA t : IF button = "Generate Analysis"
                     THEN AnalysisHandler(t, Sidebar(main_client_info, in.sidebar),
                                          in.reply,
                                          in.llm_ok, in.lib_ok)
                     ELSE t,
          Emit(c, "tab: Analysis"))

\* lines 937-1002: tabs[3]
TabDiet(c, button, in) ==
    Apply(LAMBDA t : IF button = "Generate Personalized Diet Plan"
                     THEN DietHandler(t, DietForm(Sidebar(main_client_info, in.sidebar),
                                                  in.p), in.reply,
                                      in.llm_ok, in.lib_ok)
                     ELSE t,
          Emit(c, "tab: Diet Plan"))

\* an exception that leaves a tab's block ends main()
AndThen(c, NextTab(_)) == IF c.status # "running" THEN c ELSE NextTab(c)

main(c0, button, in) ==
    Apply(LAMBDA c1 :
      Apply(LAMBDA c2 :
        Apply(LAMBDA c3 :
          Apply(LAMBDA c4 : AndThen(c4, LAMBDA c : TabDiet(c, button, in)),
                AndThen(c3, LAMBDA c : TabAnalysis(c, button, in))),
              AndThen(c2, LAMBDA c : TabAfter(c, button, in))),
            TabBefore(c1, button, in)),
          Initialised(c0))

(***************************************************************************)
(* The session: every action is one run of the script.                     *)
(***************************************************************************)
NoInput == [p |-> 0, reply |-> <<>>, llm_ok |-> TRUE, lib_ok |-> TRUE,
            sidebar |-> SidebarInput(0)]

\* the element was rendered by the last run and the script is not still running
Rendered(e) ==
    /\ run.status \in {"completed", "escaped"}
    /\ \E k \in 1..Len(run.events) : run.events[k] = e

RunStatus(c) ==
    IF c.status = "running" THEN "completed"
    ELSE IF c.status = "raised" THEN "escaped"
    ELSE c.status

\* lines 48-53, then main() at line 1005
ScriptRun(button, in) ==
    LET g == groq_client(env_key, secrets) IN
    IF g.result = "stop"
    THEN /\ run' = [clicked |-> button, status |-> "stopped", events |-> g.shown,
                    llm_calls |-> 0, files |-> <<>>,
                    client_name |-> in.sidebar.client_name]
         /\ UNCHANGED <<session_state, heap, last_saved, llm_log>>
    ELSE \E c \in {main([ss |-> session_state, heap |-> heap, log |-> llm_log,
                          saved |-> last_saved, events |-> <<>>, files |-> <<>>,
                          status |-> "running", api_key |-> g.api_key],
                         button, in)} :
            /\ session_state' = c.ss
            /\ heap' = c.heap
            /\ llm_log' = c.log
            /\ last_saved' = c.saved
            /\ run' = [clicked |-> button, status |-> RunStatus(c),
                       events |-> c.events,
                       llm_calls |-> BagCardinality(c.log) - BagCardinality(llm_log),
                       files |-> c.files,
                       client_name |-> in.sidebar.client_name]

\* the page is loaded, or a widget is edited: a run with no button clicked
Load ==
    /\ run.status # "hung"
    /\ ScriptRun("none", NoInput)
    /\ UNCHANGED <<env_key, secrets, gen_clicks, dp, pdf_in, pdf_out>>

SaveBefore ==
    /\ Rendered("tab: Before Assessment")
    /\ \E p \in Profiles :
          ScriptRun("Save Before Assessment",
                    [NoInput EXCEPT !.p = p, !.sidebar = SidebarInput(p)])
    /\ UNCHANGED <<env_key, secrets, gen_clicks, dp, pdf_in, pdf_out>>

SaveAfter ==
    /\ Rendered("tab: After Assessment")
    /\ \E p \in Profiles :
          ScriptRun("Save After Assessment",
                    [NoInput EXCEPT !.p = p, !.sidebar = SidebarInput(p)])
    /\ UNCHANGED <<env_key, secrets, gen_clicks, dp, pdf_in, pdf_out>>

GenerateAnalysis ==
    /\ Rendered("tab: Analysis")
    /\ gen_clicks < MaxClicks
    /\ \E reply \in AnalysisReplies, llm_ok \in BOOLEAN, image_ok \in BOOLEAN :
          ScriptRun("Generate Analysis",
                    [p |-> 0, reply |-> reply, llm_ok |-> llm_ok, lib_ok |-> image_ok,
                     sidebar |-> SidebarInput(1)])
    /\ gen_clicks' = gen_clicks + 1
    /\ UNCHANGED <<env_key, secrets, dp, pdf_in, pdf_out>>

GenerateDiet ==
    /\ Rendered("tab: Diet Plan")
    /\ gen_clicks < MaxClicks
    /\ \E p \in DietFills, reply \in PlanReplies,
          llm_ok \in BOOLEAN, build_ok \in BOOLEAN :
          ScriptRun("Generate Personalized Diet Plan",
                    [p |-> p, reply |-> reply, llm_ok |-> llm_ok, lib_ok |-> build_ok,
                     sidebar |-> SidebarInput(p)])
    /\ gen_clicks' = gen_clicks + 1
    /\ UNCHANGED <<env_key, secrets, dp, pdf_in, pdf_out>>

\* st.download_button: the click reruns the script with no button of main() set
Download ==
    /\ \E b \in {"st.download_button: progress report", "st.download_button: diet plan"} :
          /\ Rendered(b)
          /\ ScriptRun(b, NoInput)
    /\ UNCHANGED <<env_key, secrets, gen_clicks, dp, pdf_in, pdf_out>>

EmptyMap == [k \in {} |-> 0]

\* the deployments a session starts in, as <<GROQ_API_KEY, st.secrets>>: every
\* one without a key; the key in the environment with no secrets file to fall
\* back on; the key in the secrets alone
Environments ==
    ({"unset", "empty"} \X {"nofile", "nokey", "empty"})
       \cup {<<"env-key", "nofile">>, <<"unset", "secrets-key">>}

\* before the first run of the session
NoRun == [clicked |-> "none", status |-> "new", events |-> <<>>, llm_calls |-> 0,
          files |-> <<>>, client_name |-> ""]

Init ==
    /\ \E e \in Environments : env_key = e[1] /\ secrets = e[2]
    /\ session_state = EmptyMap
    /\ heap = EmptyMap
    /\ last_saved = EmptyMap
    /\ llm_log = EmptyBag
    /\ gen_clicks = 0
    /\ run = NoRun
    /\ dp = <<>>
    /\ pdf_in = <<>>
    /\ pdf_out = <<>>

Next ==
    \/ Load
    \/ SaveBefore
    \/ SaveAfter
    \/ GenerateAnalysis
    \/ GenerateDiet
    \/ Download

Spec == Init /\ [][Next]_vars


(***************************************************************************)
(* DietSpec: create_diet_pdf's loop, one step per test of the outer loop   *)
(* and one per meal entry, on every plan of at most MaxLines lines.        *)
(***************************************************************************)
\* the lines plans are made of
PlanLineAlphabet ==
    {<<>>,
     <<"Monday">>,
     <<"Tuesday", " ", "Lunch">>,
     <<"Breakfast", " ", "(7", ":", "00 AM)">>,
     <<"Main", ":", " ", "oats">>,
     <<"Calories", ":", " ", "300">>,
     <<"Prep Time", ":", " ", "10 mins">>,
     <<" ", "Enjoy">>}

SeqsUpTo(S, n) == UNION {[1..k -> S] : k \in 0..n}

Plans == {Join(ls, <<NL>>) : ls \in SeqsUpTo(PlanLineAlphabet, MaxLines)}

DietInit ==
    /\ dp \in {DietStart(DietForm(main_client_info, 0), plan) : plan \in Plans}
    /\ env_key = "env-key"
    /\ secrets = "nokey"
    /\ session_state = EmptyMap
    /\ heap = EmptyMap
    /\ last_saved = EmptyMap
    /\ llm_log = EmptyBag
    /\ gen_clicks = 0
    /\ run = NoRun
    /\ pdf_in = <<>>
    /\ pdf_out = <<>>

DietWhile ==
    /\ dp.pc = "while"
    /\ dp' = WhileStep(dp)
    /\ UNCHANGED <<sessionVars, pdf_in, pdf_out>>

DietMeal ==
    /\ dp.pc = "meal"
    /\ dp' = MealStep(dp)
    /\ UNCHANGED <<sessionVars, pdf_in, pdf_out>>

DietNext == DietWhile \/ DietMeal

\* the interpreter always takes the next step of a running call
DietSpec == DietInit /\ [][DietNext]_vars /\ WF_vars(DietNext)

(***************************************************************************)
(* PdfSpec: create_pdf applied once to bounded arguments.                  *)
(***************************************************************************)
MaxAnalysisLen == 4

AnalysisChars == {"1", ".", " ", "a", NL}

PdfInit ==
    /\ pdf_in \in [before_data : {DictUpdate(default_data, BeforeForm(p)) : p \in Profiles},
                   after_data : {DictUpdate(default_data, AfterForm(p)) : p \in Profiles},
                   analysis : SeqsUpTo(AnalysisChars, MaxAnalysisLen),
                   image_ok : BOOLEAN]
    /\ pdf_out = [called |-> FALSE, ok |-> FALSE, story |-> <<>>]
    /\ env_key = "env-key"
    /\ secrets = "nokey"
    /\ session_state = EmptyMap
    /\ heap = EmptyMap
    /\ last_saved = EmptyMap
    /\ llm_log = EmptyBag
    /\ gen_clicks = 0
    /\ run = NoRun
    /\ dp = <<>>

CallCreatePdf ==
    /\ ~pdf_out.called
    /\ \E figs \in {create_comparison_charts(pdf_in.before_data, pdf_in.after_data)} :
       \E pdf \in {create_pdf(main_client_info, pdf_in.analysis, pdf_in.before_data,
                              pdf_in.after_data, figs.fig1, figs.fig2,
                              pdf_in.image_ok)} :
          pdf_out' = [called |-> TRUE, ok |-> pdf.ok, story |-> pdf.story]
    /\ UNCHANGED <<sessionVars, dp, pdf_in>>

PdfNext == CallCreatePdf

PdfSpec == PdfInit /\ [][PdfNext]_vars


(***************************************************************************)
(* The claims.                                                             *)
(***************************************************************************)
Has(e) == \E k \in 1..Len(run.events) : run.events[k] = e

GuardMessage ==
    "st.error: Please complete and save both before and after assessments first!"

GenerateButtons == {"Generate Analysis", "Generate Personalized Diet Plan"}

BeforeRecord == heap[session_state["before_data"]]

AfterRecord == heap[session_state["after_data"]]

\* C1 (as claimed): create_diet_pdf terminates for every plan: the line-parsing
\* loop eventually reaches i >= len(lines) and the function returns.
C1_DietPdfTerminates == <>(dp.pc = "done")

\* C2: an exception raised inside a button handler is caught by that handler,
\* the handler's error message is the next thing shown, the exception never
\* leaves main(), and the rest of the page (the Diet Plan tab) is still run.
C2_HandlerFailuresCaught ==
    /\ run.status # "escaped"
    /\ \A k \in 1..Len(run.events) :
          run.events[k] = "exception" =>
             /\ run.status = "completed"
             /\ run.clicked \in GenerateButtons
             /\ k < Len(run.events)
             /\ run.events[k + 1] =
                   (IF run.clicked = "Generate Analysis"
                    THEN "st.error: An error occurred"
                    ELSE "st.error: An error occurred while generating the diet plan")
             /\ \E j \in 1..Len(run.events) :
                   /\ run.events[j] = "tab: Diet Plan"
                   /\ (run.clicked = "Generate Analysis" => j > k)

\* a Generate Analysis run whose LLM call or PDF build raised, and which went
\* on to render the Diet Plan tab
C2_Witness ==
    /\ run.clicked = "Generate Analysis"
    /\ Has("exception")
    /\ run.status = "completed"
    /\ run.events[Len(run.events)] = "tab: Diet Plan"

\* C3: a Generate Analysis click that passes the guard, and every Generate
\* Personalized Diet Plan click, issues exactly one chat-completion request,
\* whether the call succeeds or fails; every other run issues none; so the
\* requests issued never outnumber the generate clicks.
C3_OneLlmCallPerGeneration ==
    /\ run.clicked = "Generate Personalized Diet Plan" => run.llm_calls = 1
    /\ run.clicked = "Generate Analysis" =>
          run.llm_calls = (IF Has(GuardMessage) THEN 0 ELSE 1)
    /\ run.clicked \notin GenerateButtons => run.llm_calls = 0
    /\ BagCardinality(llm_log) <= gen_clicks

\* a diet-plan click whose one request failed, after an earlier generate click
\* that issued no request
C3_Witness ==
    /\ run.clicked = "Generate Personalized Diet Plan"
    /\ Has("exception")
    /\ run.llm_calls = 1
    /\ gen_clicks = 2
    /\ BagCardinality(llm_log) = 1

\* C4 (as claimed): Generate Analysis shows charts, calls the LLM or stores a
\* PDF only if both assessments have been saved; when either has not been
\* saved, the click shows the "save both" message instead.
C4_AnalysisOnlyWhenBothSaved ==
    run.clicked = "Generate Analysis" =>
       IF {"before", "after"} \subseteq DOMAIN last_saved
       THEN TRUE
       ELSE /\ Has(GuardMessage)
            /\ ~Has("st.plotly_chart: fig1")
            /\ run.llm_calls = 0
            /\ ~Has("session_state.progress_pdf")

\* the score field a summary-table label stands for
FieldOfLabel(label) ==
    CASE label = "Flexibility" -> "flexibility"
      [] label = "Strength" -> "strength"
      [] label = "Balance" -> "balance"
      [] label \in {"Pain", "Pain Level"} -> "pain"
      [] label = "Posture" -> "posture"
      [] label = "Breathing" -> "breathing"
      [] label \in {"Spine", "Spine Flexibility"} -> "spine"
      [] label \in {"Hips", "Hip Mobility"} -> "hips"
      [] label \in {"Shoulders", "Shoulder Mobility"} -> "shoulders"
      [] label \in {"Core", "Core Strength"} -> "core"
      [] label = "Stress" -> "stress"
      [] label = "Energy" -> "energy"
      [] label = "Focus" -> "focus"
      [] label = "Sleep" -> "sleep"
      [] label = "Anxiety" -> "anxiety"
      [] label = "Mood" -> "mood"
      [] label = "Mindfulness" -> "mindfulness"
      [] OTHER -> "none"

IsTable(e) == e.kind = "Table"

\* the table has, besides its header, exactly one row per field of fields, each
\* with the field's before and after value
TableCovers(rows, fields) ==
    /\ Len(rows) = 1 + Cardinality(fields)
    /\ {FieldOfLabel(rows[i][1]) : i \in 2..Len(rows)} = fields
    /\ \A i \in 2..Len(rows) :
          FieldOfLabel(rows[i][1]) \in fields =>
             /\ rows[i][2] = <<pdf_in.before_data[FieldOfLabel(rows[i][1])], "/10">>
             /\ rows[i][3] = <<pdf_in.after_data[FieldOfLabel(rows[i][1])], "/10">>

\* C5 (as claimed): the physical summary table of the report has one row per
\* physical score field and the mental table one row per mental score field,
\* each with that field's before and after value; none missing, none extra.
C5_SummaryTablesCoverEveryField ==
    (pdf_out.called /\ pdf_out.ok) =>
       LET tables == SelectSeq(pdf_out.story, IsTable) IN
       /\ Len(tables) = 2
       /\ TableCovers(tables[1].body, PhysicalFields)
       /\ TableCovers(tables[2].body, MentalFields)

C7_ScoresInRange ==
    \A k \in {"before_data", "after_data"} \cap DOMAIN session_state :
       \A f \in ScoreFields : heap[session_state[k]][f] \in 0..10

\* both ends of the range are stored: a saved record with a 10 and a 1
C7_Witness ==
    /\ "before" \in DOMAIN last_saved
    /\ BeforeRecord["core"] = 10
    /\ BeforeRecord["flexibility"] = 1

\* C8: once main() has run, the three records exist; a record whose Save button
\* was never clicked holds the defaults, and a saved record holds what its
\* button last saved: no later run resets it.
C8_SavedDataHeld ==
    run.status \in {"completed", "escaped", "hung"} =>
       /\ {"before_data", "after_data", "client_info"} \subseteq DOMAIN session_state
       /\ session_state["client_info"] = default_client_info
       /\ BeforeRecord = (IF "before" \in DOMAIN last_saved
                          THEN DictUpdate(default_data, last_saved["before"])
                          ELSE default_data)
       /\ AfterRecord = (IF "after" \in DOMAIN last_saved
                         THEN DictUpdate(default_data, last_saved["after"])
                         ELSE default_data)

\* a run with no Save click, after a save of non-default values
C8_Witness ==
    /\ run.clicked = "none"
    /\ run.status = "completed"
    /\ "before" \in DOMAIN last_saved
    /\ BeforeRecord["flexibility"] = 1
    /\ BeforeRecord["notes"] = "notes"

\* C9: an existing before_data changes only in a run where Save Before
\* Assessment is clicked and an existing after_data only in a run where Save
\* After Assessment is clicked: each Save leaves the other record alone and the
\* generate clicks leave both alone.
C9_OwnButtonOnly ==
    [][ ("before_data" \in DOMAIN session_state) =>
           /\ BeforeRecord' # BeforeRecord => run'.clicked = "Save Before Assessment"
           /\ AfterRecord' # AfterRecord => run'.clicked = "Save After Assessment"
      ]_vars

\* Save Before has stored non-default values and after_data still holds the defaults
C9_Witness ==
    /\ run.clicked = "Save Before Assessment"
    /\ BeforeRecord["flexibility"] = 1
    /\ AfterRecord = default_data

\* C10 (as claimed): the environment's key is used when it is set and not empty,
\* the secrets' key otherwise; with no key from either, the run shows the 'Groq
\* API key not found' error and stops; no request is made without a key.
C10_ApiKeyLookup ==
    /\ \A r \in BagToSet(llm_log) :
          r.api_key = (IF env_key = "env-key" THEN "env-key" ELSE "secrets-key")
    /\ run.status # "new" =>
          IF env_key = "env-key" \/ secrets = "secrets-key"
          THEN run.status # "stopped"
          ELSE /\ run.status = "stopped"
               /\ run.events = <<"st.error: Groq API key not found">>

\* the lines of a meal block: Main:/Alternative:, the nutrient lines, Prep Time:
IsMainLine(l) == StartsWithAny(Strip(l), {"Main", "Alternative"})

IsNutrientLine(l) == StartsWithAny(Strip(l), {"Calories", "Protein", "Carbs", "Fat"})

IsPrepLine(l) == StartsWithAny(Strip(l), {"Prep Time"})

\* how many lines from lines[k] on belong to the meal block
RECURSIVE BlockLen(_, _)
BlockLen(lines, k) ==
    IF k <= Len(lines)
       /\ (IsMainLine(lines[k]) \/ IsNutrientLine(lines[k]) \/ IsPrepLine(lines[k]))
    THEN 1 + BlockLen(lines, k + 1)
    ELSE 0

\* the lines of the block under the meal heading lines[k]
BlockOf(lines, k) == SubSeq(lines, k + 1, k + BlockLen(lines, k + 1))

StripAll(ls) == [j \in 1..Len(ls) |-> Strip(ls[j])]

\* a meal heading with at least one Main:/Alternative: line and one nutrient line
CompleteBlockAt(lines, k) ==
    /\ k <= Len(lines)
    /\ AnyIn(MealNames, Strip(lines[k]))
    /\ ~AnyIn(DayNames, Strip(lines[k]))
    /\ SelectSeq(BlockOf(lines, k), IsMainLine) # <<>>
    /\ SelectSeq(BlockOf(lines, k), IsNutrientLine) # <<>>

\* the row the block is to become
MealRowOf(lines, k) ==
    LET block == BlockOf(lines, k)
        preps == SelectSeq(block, IsPrepLine)
    IN <<Strip(lines[k]),
         Join(StripAll(SelectSeq(block, IsMainLine)), <<NL>>),
         Join(StripAll(SelectSeq(block, IsNutrientLine)), <<NL>>),
         IF preps = <<>> THEN <<>>
         ELSE Strip(Split(Strip(preps[Len(preps)]), <<":">>)[2])>>

\* C11 (as claimed): when the loop processes a complete meal block under a day
\* header, the block becomes one row [heading, Main and Alternative lines,
\* nutrient lines, prep time] appended to the current day's table.
C11_MealBlockBecomesRow ==
    [][ (dp.pc = "meal" /\ Len(dp.meal_data) >= 1 /\ CompleteBlockAt(dp.lines, dp.i + 1))
           => dp'.meal_data = Append(dp.meal_data, MealRowOf(dp.lines, dp.i + 1))
      ]_vars

IsBlankLine(l) == Len(Strip(l)) = 0

IsDayLine(l) == ~IsBlankLine(l) /\ AnyIn(DayNames, Strip(l))

IsDayHeader(e) == e.kind = "Paragraph" /\ e.style = "CustomDayHeader"

\* C12: while create_diet_pdf runs, the day-header paragraphs of the story are
\* the non-blank lines read so far that contain a weekday name (whether or not
\* they also contain a meal name), stripped and in input order; a step on a
\* blank line only moves to the next line; a step on a day line resets the meal
\* table to its header row and appends the header paragraph, preceded by the
\* previous table exactly when that table holds a meal row.
C12_DayHeaders ==
    /\ [](dp.pc \in {"while", "meal", "done"} =>
            LET read == SubSeq(dp.lines, 1, dp.i) IN
            [j \in 1..Len(SelectSeq(dp.story, IsDayHeader)) |->
                SelectSeq(dp.story, IsDayHeader)[j].body]
               = StripAll(SelectSeq(read, IsDayLine)))
    /\ [][ (dp.pc = "while" /\ dp.i < Len(dp.lines)) =>
             LET l == dp.lines[dp.i + 1] IN
             /\ IsBlankLine(l) => dp' = [dp EXCEPT !.i = dp.i + 1]
             /\ IsDayLine(l) =>
                  /\ dp'.i = dp.i + 1
                  /\ dp'.pc = "while"
                  /\ dp'.meal_data = <<MealTableHeader>>
                  /\ dp'.story =
                        dp.story
                        \o (IF Len(dp.meal_data) >= 2
                            THEN <<Table(dp.meal_data), Spacer(15)>> ELSE <<>>)
                        \o <<Paragraph(Strip(l), "CustomDayHeader")>>
         ]_vars

\* the call has returned from a plan with a blank line and two day lines, the
\* second of which also names a meal
C12_Witness ==
    /\ dp.pc = "done"
    /\ Len(SelectSeq(dp.story, IsDayHeader)) = 2
    /\ SelectSeq(dp.story, IsDayHeader)[2].body = <<"Tuesday", " ", "Lunch">>
    /\ \E k \in 1..Len(dp.lines) : IsBlankLine(dp.lines[k])

IsParagraph(e) == e.kind = "Paragraph"

\* where the analysis starts in the story: after its section title
AnalysisOffset(story) ==
    CHOOSE k \in 1..Len(story) :
       story[k] = Paragraph(<<"Detailed Progress Analysis">>, "CustomHeading2")

\* the paragraphs a section is to become
SectionParagraphs(section) ==
    LET text == Strip(section)
        cut  == SplitOnce(text, <<NL>>)
    IN IF Len(text) = 0 THEN <<>>
       ELSE IF IsDigit(text[1]) /\ Contains(section, <<".", " ">>)
            THEN <<Paragraph(Strip(cut[1]), "CustomHeading2"),
                   Paragraph(IF Len(cut) = 2 THEN Strip(cut[2]) ELSE <<>>, "CustomBody")>>
            ELSE <<Paragraph(text, "CustomBody")>>

RECURSIVE AnalysisParagraphs(_)
AnalysisParagraphs(sections) ==
    IF Len(sections) = 0 THEN <<>>
    ELSE SectionParagraphs(sections[1]) \o AnalysisParagraphs(Tail(sections))

\* C13 (as claimed): whatever the analysis text, create_pdf returns (given that
\* the figures can be exported) and the story ends with the paragraphs of the
\* non-blank sections, each once and in order: a heading and a body paragraph
\* for a numbered section, also when it is a single line, one body paragraph
\* for any other.
C13_AnalysisLayout ==
    (pdf_out.called /\ pdf_in.image_ok) =>
       /\ pdf_out.ok
       /\ SelectSeq(SubSeq(pdf_out.story, AnalysisOffset(pdf_out.story) + 1,
                           Len(pdf_out.story)),
                    IsParagraph)
             = AnalysisParagraphs(Split(pdf_in.analysis, <<NL, NL>>))

HasIn(events, e) == \E k \in 1..Len(events) : events[k] = e

\* what session state holds at key k: <<value>>, or <<>> when the key is absent
Held(ss, k) == IF k \in DOMAIN ss THEN <<ss[k]>> ELSE <<>>

\* the handler of the run r did not complete: a step raised, or never returned
Failed(r) == HasIn(r.events, "exception") \/ r.status = "hung"

\* C14: a Generate Analysis click in which a step fails leaves progress_pdf as it
\* was (absent or the earlier value) and before_data and after_data unchanged; a
\* Generate Personalized Diet Plan click in which a step fails leaves diet_pdf
\* as it was; and a PDF is stored only in a run of its own button whose one LLM
\* call and whose PDF build both succeeded.
C14_NoPartialState ==
    [][ /\ (run'.clicked = "Generate Analysis" /\ Failed(run')) =>
              /\ Held(session_state', "progress_pdf") = Held(session_state, "progress_pdf")
              /\ BeforeRecord' = BeforeRecord
              /\ AfterRecord' = AfterRecord
        /\ (run'.clicked = "Generate Personalized Diet Plan" /\ Failed(run')) =>
              Held(session_state', "diet_pdf") = Held(session_state, "diet_pdf")
        /\ (\/ HasIn(run'.events, "session_state.progress_pdf")
            \/ Held(session_state', "progress_pdf") # Held(session_state, "progress_pdf")) =>
              /\ run'.clicked = "Generate Analysis"
              /\ run'.llm_calls = 1
              /\ HasIn(run'.events, "create_pdf")
              /\ ~Failed(run')
        /\ (\/ HasIn(run'.events, "session_state.diet_pdf")
            \/ Held(session_state', "diet_pdf") # Held(session_state, "diet_pdf")) =>
              /\ run'.clicked = "Generate Personalized Diet Plan"
              /\ run'.llm_calls = 1
              /\ HasIn(run'.events, "create_diet_pdf")
              /\ ~Failed(run')
      ]_vars

\* a Generate Analysis click whose PDF build failed, with the report of an
\* earlier click still stored
C14_Witness ==
    /\ run.clicked = "Generate Analysis"
    /\ Has("create_pdf")
    /\ Has("exception")
    /\ "progress_pdf" \in DOMAIN session_state

\* the events of a Generate Analysis handler past its guard, and of its PDF
AnalysisSteps ==
    <<"st.plotly_chart: fig1", "st.plotly_chart: fig2", "chat.completions.create",
      "st.write: analysis", "create_pdf", "session_state.progress_pdf",
      "st.download_button: progress report">>

\* C15: a Generate Analysis click made when the stored flexibility score is 0 in
\* both before_data and after_data (also when both were saved that way) shows
\* the guard's message and nothing else of the handler: no chart, no LLM call,
\* no PDF built or stored, and session state is left as it was.
C15_GuardRejection ==
    [][ (/\ run'.clicked = "Generate Analysis"
         /\ BeforeRecord["flexibility"] = 0
         /\ AfterRecord["flexibility"] = 0) =>
           /\ HasIn(run'.events, GuardMessage)
           /\ \A k \in 1..Len(AnalysisSteps) : ~HasIn(run'.events, AnalysisSteps[k])
           /\ ~HasIn(run'.events, "exception")
           /\ run'.llm_calls = 0
           /\ llm_log' = llm_log
           /\ session_state' = session_state
           /\ heap' = heap
           /\ run'.status = "completed"
      ]_vars

\* the guard has rejected a click made after both assessments were saved with
\* flexibility 0
C15_Witness ==
    /\ run.clicked = "Generate Analysis"
    /\ Has(GuardMessage)
    /\ {"before", "after"} \subseteq DOMAIN last_saved
    /\ last_saved["before"]["flexibility"] = 0
    /\ last_saved["after"]["flexibility"] = 0

IndexOf(events, e) == CHOOSE k \in 1..Len(events) : events[k] = e

\* what the run rendered inside the Analysis tab
AnalysisEvents ==
    SubSeq(run.events, IndexOf(run.events, "tab: Analysis") + 1,
           IndexOf(run.events, "tab: Diet Plan") - 1)

IsImage(e) == e.kind = "Image"

\* C16: a Generate Analysis click that passes the guard goes through its steps
\* in this order: both charts displayed, the one LLM request, the analysis
\* displayed, the PDF built, its bytes stored, the download button rendered.
\* A run with no failure shows all of them, and the stored PDF holds the charts
\* of the records as they are; a run in which the LLM call or the PDF build
\* fails shows the steps up to the failing one, then the error, and none of
\* the later steps.
C16_StepOrder ==
    (run.clicked = "Generate Analysis" /\ ~Has(GuardMessage)) =>
       \E n \in 1..Len(AnalysisSteps) :
          /\ AnalysisEvents =
                SubSeq(AnalysisSteps, 1, n)
                \o (IF n = Len(AnalysisSteps) THEN <<>>
                    ELSE <<"exception", "st.error: An error occurred">>)
          /\ n < Len(AnalysisSteps) =>
                AnalysisSteps[n] \in {"chat.completions.create", "create_pdf"}
          /\ n = Len(AnalysisSteps) =>
                /\ run.llm_calls = 1
                /\ "progress_pdf" \in DOMAIN session_state
                /\ LET images == SelectSeq(session_state["progress_pdf"], IsImage) IN
                   /\ Len(images) = 2
                   /\ images[1].body.data =
                         ChartFrame(PhysicalChartRows, BeforeRecord, AfterRecord)
                   /\ images[2].body.data =
                         ChartFrame(MentalChartRows, BeforeRecord, AfterRecord)

\* a Generate Analysis click that went through every step
C16_Witness ==
    /\ run.clicked = "Generate Analysis"
    /\ Has("st.download_button: progress report")
    /\ BeforeRecord["flexibility"] = 1

\* C17: in every row of the two summary tables the Before and After cells show
\* the metric's before and after scores, and the Change cell is after - before:
\* an integer of -10..10 written with its sign, '+' when it is 0 or more.
C17_ChangeColumn ==
    (pdf_out.called /\ pdf_out.ok) =>
       LET tables == SelectSeq(pdf_out.story, IsTable) IN
       \A t \in 1..Len(tables) : \A i \in 2..Len(tables[t].body) :
          LET row == tables[t].body[i]
              b == pdf_in.before_data[FieldOfLabel(row[1])]
              a == pdf_in.after_data[FieldOfLabel(row[1])]
          IN /\ FieldOfLabel(row[1]) \in ScoreFields
             /\ row[2] = <<b, "/10">>
             /\ row[3] = <<a, "/10">>
             /\ a - b \in -10..10
             /\ row[4] = (IF a - b >= 0 THEN <<"+", a - b>> ELSE <<"-", b - a>>)

\* a report with a metric that fell and a metric that did not change
C17_Witness ==
    /\ pdf_out.called /\ pdf_out.ok
    /\ LET tables == SelectSeq(pdf_out.story, IsTable) IN
       /\ \E t \in 1..Len(tables) : \E i \in 2..Len(tables[t].body) :
             tables[t].body[i][4][1] = "-"
       /\ \E t \in 1..Len(tables) : \E i \in 2..Len(tables[t].body) :
             tables[t].body[i][4] = <<"+", 0>>

\* the client name a prompt was written with: its first slot
PromptName(request) == request.messages[1].content.values[1]

\* the client name in the second title line of a stored PDF, "for {name}"
TitleName(story) == story[2].body[2]

\* C18: whatever the user has entered as Client Name, Age and Previous Yoga
\* Experience, st.session_state.client_info stays as initialised, and every
\* prompt sent, every stored PDF's title and every download file name carry
\* the empty client name.
C18_ProfileNeverFromForm ==
    /\ "client_info" \in DOMAIN session_state =>
          session_state["client_info"] = default_client_info
    /\ \A r \in BagToSet(llm_log) :
          /\ PromptName(r.request) = ""
          /\ r.args[Len(r.args)].name = ""
          /\ r.args[Len(r.args)].age = 0
          /\ r.args[Len(r.args)].previous_yoga_experience = ""
    /\ \A k \in {"progress_pdf", "diet_pdf"} \cap DOMAIN session_state :
          TitleName(session_state[k]) = ""
    /\ \A i \in 1..Len(run.files) :
          /\ run.files[i].file_name[2] = ""
          /\ TitleName(run.files[i].data) = ""

\* a report generated and offered for download in a run where the Client Name
\* widget holds a name
C18_Witness ==
    /\ run.clicked = "Generate Analysis"
    /\ run.client_name = "Asha"
    /\ Len(run.files) = 1
    /\ run.llm_calls = 1

\* the events of a Generate Personalized Diet Plan handler
DietSteps ==
    <<"chat.completions.create", "st.write: dietary_plan", "create_diet_pdf",
      "session_state.diet_pdf", "st.download_button: diet plan">>

\* what the run rendered inside the Diet Plan tab
DietEvents ==
    SubSeq(run.events, IndexOf(run.events, "tab: Diet Plan") + 1, Len(run.events))

\* C19: a download button is rendered only by a run in which its generate
\* button was clicked and every step of the handler completed, and it offers
\* the bytes that run stored; a run without that click renders no chart, no
\* analysis or plan and no download button, also when session state still
\* holds the PDF of an earlier click.
C19_DownloadAvailability ==
    /\ Has("st.download_button: progress report") =>
          /\ run.clicked = "Generate Analysis"
          /\ ~Has(GuardMessage)
          /\ AnalysisEvents = AnalysisSteps
    /\ Has("st.download_button: diet plan") =>
          /\ run.clicked = "Generate Personalized Diet Plan"
          /\ DietEvents = DietSteps
    /\ (run.clicked # "Generate Analysis" /\ Has("tab: Diet Plan")) =>
          AnalysisEvents = <<>>
    /\ (run.clicked # "Generate Personalized Diet Plan" /\ Has("tab: Diet Plan")) =>
          DietEvents = <<>>
    /\ Len(run.files) =
          (IF Has("st.download_button: progress report")
              \/ Has("st.download_button: diet plan") THEN 1 ELSE 0)
    /\ Has("st.download_button: progress report") =>
          run.files[1].data = session_state["progress_pdf"]
    /\ Has("st.download_button: diet plan") =>
          run.files[1].data = session_state["diet_pdf"]

\* the rerun caused by pressing the report's download button: the PDF is still
\* in session state and the page shows the four tabs only
C19_Witness ==
    /\ run.clicked = "st.download_button: progress report"
    /\ run.status = "completed"
    /\ "progress_pdf" \in DOMAIN session_state
    /\ Len(run.events) = 4


====
